---- MODULE Spec2Model ----
(***************************************************************************)
(* A model of main.py: a Socket.IO chat relay with rooms, kept by the      *)
(* Socket.IO manager, and a per-room message history kept in Redis lists.  *)
(*                                                                         *)
(* Every handler is an asyncio coroutine.  A handler runs without          *)
(* interruption until it awaits something that really suspends: a Redis    *)
(* command, or an emit that has recipients.  Each action below is one such *)
(* uninterrupted block.  enter_room and leave_room of the in-memory        *)
(* manager never suspend, so they belong to the block that calls them.     *)
(* A Redis command takes effect in the store at one instant between its    *)
(* issue and the handler's resumption; the action named after the command  *)
(* is that instant.                                                        *)
(***************************************************************************)
EXTENDS Integers, Sequences, FiniteSets, Bags, TLC

(* ------------------------------ bounds -------------------------------- *)
MaxEvents == 2
MaxTasks == 2
MaxDays == 1
MaxAppends == 150
MaxPushes == 3
MaxRoomEvents == 4
MaxStored == 4

(* ------------------------- program constants -------------------------- *)
TRIM_STOP == 99
TTL_SECONDS == 86400
DEFAULT_LIMIT == 50

SidOrder == <<"s1", "s2">>
Conns == {SidOrder[i] : i \in 1..Len(SidOrder)}
Rooms == {"lobby", "dev"}
Missing == "<missing>"
RoomInputs == Rooms \cup {"", Missing}
Texts == {"hi"}
TextInputs == Texts \cup {"", Missing}
Usernames == {"alice"}
UserInputs == Usernames \cup {Missing}
NoTTL == 0 - 1
Limits == {0, 1, DEFAULT_LIMIT, TRIM_STOP + 1}

VARIABLES
  conn,      \* sid -> "new" | "up" | "down": the transport's connection state
  rooms,     \* sio.manager.rooms: room name -> set of member sids
  store,     \* Redis: room -> the list at key room:<room>:messages, head first
  expireAt,  \* Redis: room -> the time the key expires, NoTTL when none is set
  clock,     \* the wall clock, in seconds
  tasks,     \* the bag of handler coroutines suspended at an await
  outbox,    \* sid -> the events emitted to that connection, in order
  nEvents,   \* number of handler invocations so far
  nMsgs,     \* history: number of message events accepted so far; numbers them
  joined,    \* history: <<sid, room>> with a completed join, no later leave/disconnect
  appended,  \* history: room -> the entries pushed so far, in push order
  dropped,   \* history: some event has been dropped by validation
  untrimmed, \* history: room -> pushes since the last successful trim of the room
  resp,      \* the last response of the history query endpoint
  written,   \* history: the message events whose store_message returned True
  failedReads \* history: <<sid, room>> with a join whose history read failed

vars == <<conn, rooms, store, expireAt, clock, tasks, outbox, nEvents, nMsgs,
          joined, appended, dropped, untrimmed, resp, written, failedReads>>

(* ------------------------------ helpers ------------------------------- *)
\* Python truthiness of data.get(key): a missing key (None) and "" are falsy.
Falsy(v) == v \in {"", Missing}

RECURSIVE Reversed(_)
Reversed(s) == IF s = <<>> THEN <<>> ELSE Append(Reversed(Tail(s)), Head(s))

RECURSIVE SelectParsed(_)

\* json.dumps of a dict, and json.loads of a stored string.  A stored string
\* is <<"json", dict>> when it is well-formed JSON, anything else otherwise.
JsonDumps(d) == <<"json", d>>
IsJson(s) == Len(s) = 2 /\ s[1] = "json"
JsonLoads(s) == s[2]

\* The loop of get_room_history: json.loads of each entry, skipping those
\* that raise JSONDecodeError.
SelectParsed(s) ==
  IF s = <<>> THEN <<>>
  ELSE IF IsJson(Head(s)) THEN <<JsonLoads(Head(s))>> \o SelectParsed(Tail(s))
  ELSE SelectParsed(Tail(s))

(* ------------------------------- Redis -------------------------------- *)
\* LRANGE key start stop: both ends inclusive, zero-based, clipped to the
\* list; a negative index counts from the end of the list.
LRange(list, start, stop) ==
  LET n  == Len(list)
      s0 == IF start < 0 THEN n + start ELSE start
      e0 == IF stop < 0 THEN n + stop ELSE stop
      lo == IF s0 < 0 THEN 0 ELSE s0
      hi == IF e0 >= n THEN n - 1 ELSE e0
  IN  IF lo > e0 \/ lo >= n THEN <<>> ELSE SubSeq(list, lo + 1, hi + 1)

\* LPUSH key value: the value becomes the head of the list.
LPush(list, v) == <<v>> \o list

LTrim_FromTail(list, start, stop) == LRange(list, -(stop + 1), -(start + 1))

LTrim_OneMore(list, start, stop) == LRange(list, start, stop + 1)

\* LTRIM key start stop: keep only the range.
LTrim(list, start, stop) == LRange(list, start, stop)

(* ---------------------------- the manager ----------------------------- *)
\* sio.enter_room(sid, room)
EnterRoom(rs, sid, room) == [rs EXCEPT ![room] = @ \cup {sid}]

LeaveRoom_Keeps(rs, sid, room) == rs

LeaveRoom_Toggles(rs, sid, room) ==
  [rs EXCEPT ![room] = IF sid \in @ THEN @ \ {sid} ELSE @ \cup {sid}]

\* sio.leave_room(sid, room)
LeaveRoom(rs, sid, room) == [rs EXCEPT ![room] = @ \ {sid}]

ManagerDisconnect_FirstRoomOnly(rs, sid) ==
  LET first == CHOOSE r \in Rooms : \A q \in Rooms : sid \in rs[q] => sid \in rs[r]
  IN  [rs EXCEPT ![first] = @ \ {sid}]

\* What the manager does when a connection goes away: out of every room.
ManagerDisconnect(rs, sid) == [r \in Rooms |-> rs[r] \ {sid}]

RoomRecipients_NoSkip(rs, room, skip) == rs[room]

RoomRecipients_None(rs, room, skip) == {}

RoomRecipients_FromMembers(rs, room, skip) ==
  IF skip \in rs[room] THEN rs[room] \ {skip} ELSE {}

\* The recipients of sio.emit(..., room=room, skip_sid=skip).
RoomRecipients(rs, room, skip) == rs[room] \ {skip}

\* The recipients of sio.emit(..., to=sid): the connection's own private
\* room, which exists as long as the connection does.
PrivateRecipients(sid) == IF conn[sid] = "up" THEN {sid} ELSE {}

\* An emitted event and its payload.  room and id are history fields: the
\* room the event was emitted for, and the number of the message event.
Event(ev, payload, room, id) == [ev |-> ev, payload |-> payload, room |-> room, id |-> id]

Emit_ToAll(ob, to, e) == [c \in Conns |-> Append(ob[c], e)]

\* Delivery of one event to a set of recipients.
Emit(ob, to, e) == [c \in Conns |-> IF c \in to THEN Append(ob[c], e) ELSE ob[c]]

\* A suspended handler: its arguments, its locals and where it resumes.  id
\* and mark are history fields: the number of the message event, and the
\* length of the joiner's outbox when the join handler started.
Task(kind, sid, room, username, message, pc) ==
  [kind |-> kind, sid |-> sid, room |-> room, username |-> username,
   message |-> message, pc |-> pc, ts |-> 0, hist |-> <<>>, ok |-> TRUE,
   id |-> 0, mark |-> 0]

Suspended == BagToSet(tasks)
Spawn(t) == tasks (+) SetToBag({t})
Finish(t) == tasks (-) SetToBag({t})
Replace(t, u) == (tasks (-) SetToBag({t})) (+) SetToBag({u})

(* ------------------------------- Init --------------------------------- *)
Init ==
  /\ conn = [c \in Conns |-> "new"]
  /\ rooms = [r \in Rooms |-> {}]
  /\ store = [r \in Rooms |-> <<>>]
  /\ expireAt = [r \in Rooms |-> NoTTL]
  /\ clock = 0
  /\ tasks = EmptyBag
  /\ outbox = [c \in Conns |-> <<>>]
  /\ nEvents = 0
  /\ nMsgs = 0
  /\ joined = {}
  /\ appended = [r \in Rooms |-> <<>>]
  /\ dropped = FALSE
  /\ untrimmed = [r \in Rooms |-> 0]
  /\ resp = [room |-> "", limit |-> 0, messages |-> <<>>, n |-> 0]
  /\ written = {}
  /\ failedReads = {}

(* --------------------------- the history ------------------------------ *)
\* store_message, lines 39-44: the dict that is stored.  id and sid are
\* history fields: the number of the message event the record was made for,
\* and the connection that sent it.
MessageData(t) ==
  [username |-> t.username, message |-> t.message, timestamp |-> t.ts,
   room |-> t.room, id |-> t.id, sid |-> t.sid]

GetRoomHistory_NoReturn(list, limit, ok) ==
  IF ok THEN SelectParsed(Reversed(LRange(list, 0, limit - 1))) ELSE <<"None">>

\* get_room_history(room, limit) on the list stored for the room: the
\* entries lrange returns, reversed, parsed; [] when the store raises.
GetRoomHistory(list, limit, ok) ==
  IF ok THEN SelectParsed(Reversed(LRange(list, 0, limit - 1))) ELSE <<>>

\* The validation of each handler: lines 122, 143 and 160.
InvalidJoin(data) == Falsy(data.room)
InvalidLeave(data) == Falsy(data.room)

InvalidMessage_RoomOnly(data) == Falsy(data.room)

InvalidMessage(data) == Falsy(data.room) \/ Falsy(data.message)

StoreFailed_Raises(t) == Finish(t)

\* store_message's except branch: the error is printed, False is returned
\* and handle_message goes on to its emit.
StoreFailed(t) == Replace(t, [t EXCEPT !.pc = "emit", !.ok = FALSE])

(* ----------------------------- handlers ------------------------------- *)
\* connect(sid, environ, auth): the transport has accepted the connection.
connect(sid) ==
  /\ conn[sid] = "new"
  /\ conn' = [conn EXCEPT ![sid] = "up"]
  /\ UNCHANGED <<rooms, store, expireAt, clock, tasks, outbox, nEvents, nMsgs,
                 joined, appended, dropped, untrimmed, resp, written, failedReads>>

\* disconnect(sid): the handler prints; the manager takes the connection
\* out of every room.  Nothing is emitted.
disconnect(sid) ==
  /\ conn[sid] = "up"
  /\ conn' = [conn EXCEPT ![sid] = "down"]
  /\ rooms' = ManagerDisconnect(rooms, sid)
  /\ joined' = {p \in joined : p[1] # sid}
  /\ UNCHANGED <<store, expireAt, clock, tasks, outbox, nEvents, nMsgs,
                 appended, dropped, untrimmed, resp, written, failedReads>>

\* handle_join(sid, data) up to its first suspension, the lrange of
\* get_room_history.
handle_join(sid, data) ==
  /\ conn[sid] = "up"
  /\ nEvents' = nEvents + 1
  /\ IF InvalidJoin(data)
     THEN /\ dropped' = TRUE
          /\ UNCHANGED <<rooms, joined, tasks>>
     ELSE /\ rooms' = EnterRoom(rooms, sid, data.room)
          /\ joined' = joined \cup {<<sid, data.room>>}
          /\ tasks' = Spawn([Task("join", sid, data.room,
                                   IF data.username = Missing THEN "Anonymous"
                                   ELSE data.username,
                                   "", "lrange")
                              EXCEPT !.mark = Len(outbox[sid])])
          /\ UNCHANGED dropped
  /\ UNCHANGED <<conn, store, expireAt, clock, outbox, nMsgs, appended, untrimmed, resp, written, failedReads>>

\* Redis runs the lrange of a join's get_room_history(room), or the read
\* fails; either way the handler has its room_history to send.
JoinLRange(t, ok) ==
  /\ t.kind = "join" /\ t.pc = "lrange"
  /\ tasks' = Replace(t, [t EXCEPT !.pc = "room_history",
                                   !.hist = GetRoomHistory(store[t.room], DEFAULT_LIMIT, ok),
                                   !.ok = ok])
  /\ failedReads' = IF ok THEN failedReads ELSE failedReads \cup {<<t.sid, t.room>>}
  /\ UNCHANGED <<conn, rooms, store, expireAt, clock, outbox, nEvents, nMsgs,
                 joined, appended, dropped, untrimmed, resp, written>>

\* The three emits of handle_join, lines 132-138.
JoinEvent(t, pc) ==
  CASE pc = "room_history" -> Event("room_history", [messages |-> t.hist], t.room, 0)
    [] pc = "user_joined"  -> Event("user_joined", [username |-> t.username], t.room, 0)
    [] pc = "join_success" -> Event("join_success", [room |-> t.room], t.room, 0)

JoinRecipients_Room(t, pc) == rooms[t.room]

\* The recipients of each: to=sid, room=room with skip_sid=sid, to=sid.
JoinRecipients(t, pc) ==
  IF pc = "user_joined" THEN RoomRecipients(rooms, t.room, t.sid)
  ELSE PrivateRecipients(t.sid)

JoinNextPc(pc) ==
  CASE pc = "room_history" -> "user_joined"
    [] pc = "user_joined"  -> "join_success"
    [] pc = "join_success" -> "done"

\* handle_join from one resumption to the next suspension: an emit that has
\* no recipient does not suspend, and the handler goes on to the next one.
RECURSIVE JoinRun(_, _, _)
JoinRun(ob, t, pc) ==
  IF pc = "done" THEN [ob |-> ob, pc |-> pc]
  ELSE IF JoinRecipients(t, pc) = {} THEN JoinRun(ob, t, JoinNextPc(pc))
  ELSE [ob |-> Emit(ob, JoinRecipients(t, pc), JoinEvent(t, pc)), pc |-> JoinNextPc(pc)]

JoinEmit(t) ==
  /\ t.kind = "join" /\ t.pc # "lrange"
  /\ LET run == JoinRun(outbox, t, t.pc)
     IN  /\ outbox' = run.ob
         /\ tasks' = IF run.pc = "done" THEN Finish(t)
                     ELSE Replace(t, [t EXCEPT !.pc = run.pc])
  /\ UNCHANGED <<conn, rooms, store, expireAt, clock, nEvents, nMsgs,
                 joined, appended, dropped, untrimmed, resp, written, failedReads>>

\* handle_leave(sid, data): nothing in it suspends before the emit.
handle_leave(sid, data) ==
  /\ conn[sid] = "up"
  /\ nEvents' = nEvents + 1
  /\ IF InvalidLeave(data)
     THEN /\ dropped' = TRUE
          /\ UNCHANGED <<rooms, joined, outbox>>
     ELSE /\ rooms' = LeaveRoom(rooms, sid, data.room)
          /\ joined' = joined \ {<<sid, data.room>>}
          /\ outbox' = Emit(outbox, rooms'[data.room],
                            Event("user_left", [username |-> "A user"], data.room, 0))
          /\ UNCHANGED dropped
  /\ UNCHANGED <<conn, store, expireAt, clock, tasks, nMsgs, appended, untrimmed, resp, written, failedReads>>

\* handle_message(sid, data) up to its first suspension, the lpush of
\* store_message; message_data and its timestamp are made before it.
handle_message(sid, data) ==
  /\ conn[sid] = "up"
  /\ nEvents' = nEvents + 1
  /\ IF InvalidMessage(data)
     THEN /\ dropped' = TRUE
          /\ UNCHANGED <<tasks, nMsgs>>
     ELSE /\ nMsgs' = nMsgs + 1
          /\ tasks' = Spawn([Task("message", sid, data.room, data.username,
                                   data.message, "lpush")
                              EXCEPT !.ts = clock, !.id = nMsgs + 1])
          /\ UNCHANGED dropped
  /\ UNCHANGED <<conn, rooms, store, expireAt, clock, outbox, joined,
                 appended, untrimmed, resp, written, failedReads>>

\* Redis runs the lpush of store_message, or the command fails.
StoreLPush(t, ok) ==
  /\ t.kind = "message" /\ t.pc = "lpush"
  /\ IF ok
     THEN /\ store' = [store EXCEPT ![t.room] = LPush(@, JsonDumps(MessageData(t)))]
          /\ appended' = [appended EXCEPT ![t.room] = Append(@, JsonDumps(MessageData(t)))]
          /\ untrimmed' = [untrimmed EXCEPT ![t.room] = @ + 1]
          /\ tasks' = Replace(t, [t EXCEPT !.pc = "ltrim"])
     ELSE /\ tasks' = StoreFailed(t)
          /\ UNCHANGED <<store, appended, untrimmed>>
  /\ UNCHANGED <<conn, rooms, expireAt, clock, outbox, nEvents, nMsgs, joined, dropped, resp, written, failedReads>>

\* Redis runs the ltrim of store_message, or the command fails.
StoreLTrim(t, ok) ==
  /\ t.kind = "message" /\ t.pc = "ltrim"
  /\ IF ok
     THEN /\ store' = [store EXCEPT ![t.room] = LTrim(@, 0, TRIM_STOP)]
          /\ untrimmed' = [untrimmed EXCEPT ![t.room] = 0]
          /\ tasks' = Replace(t, [t EXCEPT !.pc = "expire"])
     ELSE /\ tasks' = StoreFailed(t)
          /\ UNCHANGED <<store, untrimmed>>
  /\ UNCHANGED <<conn, rooms, expireAt, clock, outbox, nEvents, nMsgs, joined,
                 appended, dropped, resp, written, failedReads>>

\* Redis runs the expire of store_message, or the command fails.  EXPIRE of
\* a key that does not exist sets nothing.
StoreExpire(t, ok) ==
  /\ t.kind = "message" /\ t.pc = "expire"
  /\ IF ok
     THEN /\ expireAt' = IF store[t.room] = <<>> THEN expireAt
                         ELSE [expireAt EXCEPT ![t.room] = clock + TTL_SECONDS]
          /\ written' = written \cup {t.id}
          /\ tasks' = Replace(t, [t EXCEPT !.pc = "emit"])
     ELSE /\ tasks' = StoreFailed(t)
          /\ UNCHANGED <<expireAt, written>>
  /\ UNCHANGED <<conn, rooms, store, clock, outbox, nEvents, nMsgs, joined,
                 appended, dropped, untrimmed, resp, failedReads>>

\* The new_message of handle_message, lines 169-173.
NewMessage(t) ==
  Event("new_message",
        [sender |-> t.username, message |-> t.message, timestamp |-> clock],
        t.room, t.id)

MessageEmit_Early(t) ==
  /\ t.kind = "message"
  /\ outbox' = Emit(outbox, RoomRecipients(rooms, t.room, t.sid), NewMessage(t))
  /\ tasks' = Finish(t)
  /\ UNCHANGED <<conn, rooms, store, expireAt, clock, nEvents, nMsgs,
                 joined, appended, dropped, untrimmed, resp, written, failedReads>>

\* handle_message after store_message has returned: the broadcast.
MessageEmit(t) ==
  /\ t.kind = "message" /\ t.pc = "emit"
  /\ outbox' = Emit(outbox, RoomRecipients(rooms, t.room, t.sid), NewMessage(t))
  /\ tasks' = Finish(t)
  /\ UNCHANGED <<conn, rooms, store, expireAt, clock, nEvents, nMsgs,
                 joined, appended, dropped, untrimmed, resp, written, failedReads>>

\* get_room_messages(room, limit): the history query endpoint.  resp.n is a
\* history field: the number of entries pushed to the room's log so far.
get_room_messages(room, limit, ok) ==
  /\ resp' = [room |-> room, limit |-> limit,
              messages |-> GetRoomHistory(store[room], limit, ok),
              n |-> Len(appended[room])]
  /\ UNCHANGED <<conn, rooms, store, expireAt, clock, tasks, outbox, nEvents, nMsgs,
                 joined, appended, dropped, untrimmed, written, failedReads>>

\* Time passes: datetime.now() moves on, and Redis deletes every key whose
\* expiry time has come.
Tick(d) ==
  /\ clock' = clock + d
  /\ LET gone == {r \in Rooms : expireAt[r] # NoTTL /\ expireAt[r] <= clock + d}
     IN  /\ store' = [r \in Rooms |-> IF r \in gone THEN <<>> ELSE store[r]]
         /\ expireAt' = [r \in Rooms |-> IF r \in gone THEN NoTTL ELSE expireAt[r]]
         /\ untrimmed' = [r \in Rooms |-> IF r \in gone THEN 0 ELSE untrimmed[r]]
  /\ UNCHANGED <<conn, rooms, tasks, outbox, nEvents, nMsgs, joined, appended,
                 dropped, resp, written, failedReads>>

(* --------------------------- specification ---------------------------- *)
\* The bound on what is admitted: MaxEvents handler invocations in all, at
\* most MaxTasks of them suspended at a time.
Admit == nEvents < MaxEvents /\ BagCardinality(tasks) < MaxTasks

\* Session ids are opaque: connections are numbered in the order they arrive.
NextSid(sid) ==
  \E i \in 1..Len(SidOrder) :
    sid = SidOrder[i] /\ \A j \in 1..(i - 1) : conn[SidOrder[j]] # "new"

\* The payloads the clients send: every room input, and for a message every
\* text input with a room and every room input with a text.
JoinData == [room : RoomInputs, username : Usernames]
LeaveData == [room : RoomInputs]
MessageInputs ==
  {d \in [room : RoomInputs, message : TextInputs, username : Usernames] :
     d.room = "lobby" \/ d.message \in Texts}

\* The relay with a store that answers every command.
Next ==
  \/ \E sid \in Conns : NextSid(sid) /\ connect(sid)
  \/ \E sid \in Conns : disconnect(sid)
  \/ \E sid \in Conns, data \in JoinData : Admit /\ handle_join(sid, data)
  \/ \E sid \in Conns, data \in LeaveData : Admit /\ handle_leave(sid, data)
  \/ \E sid \in Conns, data \in MessageInputs : Admit /\ handle_message(sid, data)
  \/ \E t \in Suspended : JoinLRange(t, TRUE)
  \/ \E t \in Suspended : JoinEmit(t)
  \/ \E t \in Suspended : StoreLPush(t, TRUE)
  \/ \E t \in Suspended : StoreLTrim(t, TRUE)
  \/ \E t \in Suspended : StoreExpire(t, TRUE)
  \/ \E t \in Suspended : MessageEmit(t)

Spec == Init /\ [][Next]_vars

\* One room, a store whose every command may fail, and a clock that moves a
\* retention period at a time.
Lobby == [room |-> "lobby", username |-> "alice"]
LobbyMessage == [room |-> "lobby", message |-> "hi", username |-> "alice"]

NextFail ==
  \/ \E sid \in Conns : NextSid(sid) /\ connect(sid)
  \/ \E sid \in Conns : Admit /\ handle_join(sid, Lobby)
  \/ \E sid \in Conns : Admit /\ handle_message(sid, LobbyMessage)
  \/ \E t \in Suspended, ok \in BOOLEAN : JoinLRange(t, ok)
  \/ \E t \in Suspended : JoinEmit(t)
  \/ \E t \in Suspended, ok \in BOOLEAN : StoreLPush(t, ok)
  \/ \E t \in Suspended, ok \in BOOLEAN : StoreLTrim(t, ok)
  \/ \E t \in Suspended, ok \in BOOLEAN : StoreExpire(t, ok)
  \/ \E t \in Suspended : MessageEmit(t)
  \/ clock < MaxDays * TTL_SECONDS /\ Tick(TTL_SECONDS)

SpecFail == Init /\ [][NextFail]_vars

\* One connection appends to one room, one message event at a time, up to
\* MaxAppends of them, and the history of the room is queried through the
\* endpoint once, at any moment.
NextHistory ==
  \/ connect(SidOrder[1])
  \/ /\ tasks = EmptyBag /\ nMsgs < MaxAppends
     /\ handle_message(SidOrder[1], LobbyMessage)
  \/ \E t \in Suspended : StoreLPush(t, TRUE)
  \/ \E t \in Suspended : StoreLTrim(t, TRUE)
  \/ \E t \in Suspended : StoreExpire(t, TRUE)
  \/ \E t \in Suspended : MessageEmit(t)
  \/ \E limit \in Limits : resp.room = "" /\ get_room_messages("lobby", limit, TRUE)

SpecHistory == Init /\ [][NextHistory]_vars

\* The store as TRIM_STOP message events of an earlier run of the server
\* left it: Redis outlives the process.  SpecHistory reaches this store.
Earlier(k) ==
  JsonDumps([username |-> "alice", message |-> "hi", timestamp |-> 0,
             room |-> "lobby", id |-> k, sid |-> "s0"])

EarlierLog == [i \in 1..TRIM_STOP |-> Earlier(TRIM_STOP + 1 - i)]

InitCap ==
  /\ conn = [c \in Conns |-> "new"]
  /\ rooms = [r \in Rooms |-> {}]
  /\ store = [r \in Rooms |-> IF r = "lobby" THEN EarlierLog ELSE <<>>]
  /\ expireAt = [r \in Rooms |-> IF r = "lobby" THEN TTL_SECONDS ELSE NoTTL]
  /\ clock = 0
  /\ tasks = EmptyBag
  /\ outbox = [c \in Conns |-> <<>>]
  /\ nEvents = 0
  /\ nMsgs = TRIM_STOP
  /\ joined = {}
  /\ appended = [r \in Rooms |->
                   IF r = "lobby" THEN [i \in 1..TRIM_STOP |-> Earlier(i)] ELSE <<>>]
  /\ dropped = FALSE
  /\ untrimmed = [r \in Rooms |-> 0]
  /\ resp = [room |-> "", limit |-> 0, messages |-> <<>>, n |-> 0]
  /\ written = {}
  /\ failedReads = {}

\* One connection appends to one room whose log is one short of its cap, up
\* to MaxTasks message events at a time, and any command of the store may
\* fail.
NextCap ==
  \/ connect(SidOrder[1])
  \/ /\ BagCardinality(tasks) < MaxTasks /\ nMsgs < TRIM_STOP + MaxPushes
     /\ handle_message(SidOrder[1], LobbyMessage)
  \/ \E t \in Suspended, ok \in BOOLEAN : StoreLPush(t, ok)
  \/ \E t \in Suspended, ok \in BOOLEAN : StoreLTrim(t, ok)
  \/ \E t \in Suspended, ok \in BOOLEAN : StoreExpire(t, ok)
  \/ \E t \in Suspended : MessageEmit(t)

SpecCap == InitCap /\ [][NextCap]_vars

\* Joins and leaves only, of either room and with or without a username, one
\* event at a time and up to MaxRoomEvents of them, on the store the earlier
\* run left.
JoinInputs == [room : Rooms, username : UserInputs]
LeaveInputs == [room : Rooms]
AdmitRooms == nEvents < MaxRoomEvents /\ tasks = EmptyBag

NextRooms ==
  \/ \E sid \in Conns : NextSid(sid) /\ connect(sid)
  \/ \E sid \in Conns, data \in JoinInputs : AdmitRooms /\ handle_join(sid, data)
  \/ \E sid \in Conns, data \in LeaveInputs : AdmitRooms /\ handle_leave(sid, data)
  \/ \E t \in Suspended : JoinLRange(t, TRUE)
  \/ \E t \in Suspended : JoinEmit(t)

SpecRooms == InitCap /\ [][NextRooms]_vars

\* The history endpoint on a lobby log of up to MaxStored entries that other
\* writers to the Redis instance left: records as store_message writes them,
\* and strings that json.loads rejects.
Garbage == <<"{not json">>
Entries == {Earlier(1), Earlier(2), Garbage}
StoredLogs == UNION {[1..n -> Entries] : n \in 0..MaxStored}

InitStored ==
  /\ conn = [c \in Conns |-> "new"]
  /\ rooms = [r \in Rooms |-> {}]
  /\ \E log \in StoredLogs :
       /\ store = [r \in Rooms |-> IF r = "lobby" THEN log ELSE <<>>]
       /\ expireAt = [r \in Rooms |->
                        IF r = "lobby" /\ log # <<>> THEN TTL_SECONDS ELSE NoTTL]
  /\ clock = 0
  /\ tasks = EmptyBag
  /\ outbox = [c \in Conns |-> <<>>]
  /\ nEvents = 0
  /\ nMsgs = 0
  /\ joined = {}
  /\ appended = [r \in Rooms |-> <<>>]
  /\ dropped = FALSE
  /\ untrimmed = [r \in Rooms |-> 0]
  /\ resp = [room |-> "", limit |-> 0, messages |-> <<>>, n |-> 0]
  /\ written = {}
  /\ failedReads = {}

NextStored ==
  \E limit \in Limits : resp.room = "" /\ get_room_messages("lobby", limit, TRUE)

SpecStored == InitStored /\ [][NextStored]_vars

(* ------------------------------ claims -------------------------------- *)
IsNewMessage(e, room) == e.ev = "new_message" /\ e.room = room

\* C1: the broadcast of a message event appends its new_message exactly once
\* to the outbox of every connection that is a member of the room at that
\* moment other than the sender, and changes no other outbox; the sender
\* never gets it, and a room holding only the sender gets nothing.
C1_BroadcastExceptSender ==
  [][\A t \in Suspended : MessageEmit(t) =>
       \A c \in Conns :
         /\ \A i \in 1..Len(outbox[c]) : outbox[c][i].id # t.id
         /\ IF c \in rooms[t.room] /\ c # t.sid
            THEN /\ outbox'[c] = Append(outbox[c], outbox'[c][Len(outbox'[c])])
                 /\ outbox'[c][Len(outbox'[c])].ev = "new_message"
                 /\ outbox'[c][Len(outbox'[c])].id = t.id
                 /\ outbox'[c][Len(outbox'[c])].payload.message = t.message
            ELSE outbox'[c] = outbox[c]]_vars

\* A message was sent to a room by a connection other than its one member:
\* the member holds the new_message, and no other connection holds one.
C1_Witness ==
  \E s \in Conns, c \in Conns, r \in Rooms :
    /\ s # c /\ conn[s] = "up" /\ rooms[r] = {c}
    /\ \E i \in 1..Len(outbox[c]) : IsNewMessage(outbox[c][i], r)
    /\ \A d \in Conns \ {c} : \A i \in 1..Len(outbox[d]) : outbox[d][i].ev # "new_message"

\* C2: a connection is in a room's member set exactly when it has completed
\* a join of the room that no leave of the room by it and no disconnect of
\* it has followed.
C2_MembershipIffJoined ==
  \A c \in Conns, r \in Rooms : c \in rooms[r] <=> <<c, r>> \in joined

\* All admitted events have run to their end: one connection is a member of
\* a room and another has gone away.
C2_Witness ==
  \E c \in Conns, d \in Conns, r \in Rooms :
    /\ c \in rooms[r] /\ conn[d] = "down"
    /\ nEvents = MaxEvents /\ tasks = EmptyBag

\* C3: while a join of room R by X has not yet delivered its join_success,
\* no new_message for R has reached X since that join began.
C3_HistoryBeforeLive ==
  \A t \in Suspended :
    t.kind = "join" =>
      \A i \in (t.mark + 1)..Len(outbox[t.sid]) :
        ~IsNewMessage(outbox[t.sid][i], t.room)

\* C9: an event that fails its handler's validation changes no member set,
\* no history log and no outbox, and leaves no handler suspended.
C9_InvalidEventDropped ==
  [][nEvents' # nEvents =>
       \A sid \in Conns :
         /\ \A data \in {d \in [room : RoomInputs, username : UserInputs] : Falsy(d.room)} :
              handle_join(sid, data)
                => UNCHANGED <<rooms, store, expireAt, outbox, tasks>>
         /\ \A data \in {d \in [room : RoomInputs] : Falsy(d.room)} :
              handle_leave(sid, data)
                => UNCHANGED <<rooms, store, expireAt, outbox, tasks>>
         /\ \A data \in {d \in [room : RoomInputs, message : TextInputs,
                                username : Usernames] :
                           Falsy(d.room) \/ Falsy(d.message)} :
              handle_message(sid, data)
                => UNCHANGED <<rooms, store, expireAt, outbox, tasks>>]_vars

\* An event has been dropped, and it is the only event so far: no room has
\* a member, no handler is suspended and no outbox holds anything.
C9_Witness ==
  /\ dropped /\ nEvents = 1 /\ tasks = EmptyBag
  /\ \A r \in Rooms : rooms[r] = {} /\ store[r] = <<>>
  /\ \A c \in Conns : outbox[c] = <<>>

\* C10: a disconnect takes the connection out of every room and emits
\* nothing, and a connection that has gone stays out of every room whatever
\* its suspended handlers do next.
C10_DisconnectLeavesAllRooms ==
  [][/\ \A sid \in Conns :
          disconnect(sid) => outbox' = outbox /\ \A r \in Rooms : sid \notin rooms'[r]
     /\ \A c \in Conns :
          conn[c] = "down" => \A r \in Rooms : c \notin rooms'[r]]_vars

\* A connection went away while its joins of two rooms were still suspended,
\* and one of them has since run on.
C10_Witness ==
  \E c \in Conns :
    /\ conn[c] = "down"
    /\ \E t \in Suspended, u \in Suspended :
         /\ t.kind = "join" /\ u.kind = "join" /\ t.sid = c /\ u.sid = c
         /\ t.room # u.room /\ t.pc # "lrange"


Min(a, b) == IF a < b THEN a ELSE b
Suffix(seq, k) == SubSeq(seq, Len(seq) - k + 1, Len(seq))
Parsed(seq) == [i \in 1..Len(seq) |-> JsonLoads(seq[i])]
NewestFirst(r) == store[r] = Reversed(Suffix(appended[r], Len(store[r])))

\* C4: a message handler never ends without its broadcast: a failed store
\* command makes store_message return False and the handler resume at its
\* emit, and the handler ends only by appending new_message to the outbox of
\* every member of the room other than the sender.
C4_BroadcastDespiteStoreFailure ==
  [][\A t \in Suspended :
       t.kind = "message" =>
         /\ StoreLPush(t, FALSE) \/ StoreLTrim(t, FALSE) \/ StoreExpire(t, FALSE)
              => \E u \in BagToSet(tasks') : u.id = t.id /\ u.pc = "emit" /\ u.ok = FALSE
         /\ (\A u \in BagToSet(tasks') : u.id # t.id)
              => \A c \in Conns :
                   IF c \in rooms[t.room] /\ c # t.sid
                   THEN /\ Len(outbox'[c]) = Len(outbox[c]) + 1
                        /\ SubSeq(outbox'[c], 1, Len(outbox[c])) = outbox[c]
                        /\ outbox'[c][Len(outbox'[c])].ev = "new_message"
                        /\ outbox'[c][Len(outbox'[c])].id = t.id
                   ELSE outbox'[c] = outbox[c]]_vars

\* A member holds the new_message of a message event whose record never
\* reached the log, with the log empty.
C4_Witness ==
  \E c \in Conns :
    /\ c \in rooms["lobby"]
    /\ appended["lobby"] = <<>>
    /\ \E i \in 1..Len(outbox[c]) : IsNewMessage(outbox[c][i], "lobby")

\* C5: a query with limit 100 returns the min(n, 100) entries pushed last
\* among the n pushed so far, in the order they were pushed.
C5_Last100InOrder ==
  resp.room # "" /\ resp.limit = TRIM_STOP + 1 =>
    resp.messages =
      Parsed(Suffix(SubSeq(appended[resp.room], 1, resp.n), Min(resp.n, TRIM_STOP + 1)))

\* The query came after MaxAppends appends, past the cap of the log.
C5_Witness ==
  /\ resp.room = "lobby" /\ resp.limit = TRIM_STOP + 1
  /\ resp.n = MaxAppends /\ MaxAppends > TRIM_STOP + 1
  /\ Len(resp.messages) = TRIM_STOP + 1
  /\ resp.messages[1].id = MaxAppends - TRIM_STOP

\* C6 as claimed: in every state every log holds at most 100 entries, newest
\* first.
C6_AlwaysCapped ==
  \A r \in Rooms : Len(store[r]) <= TRIM_STOP + 1 /\ NewestFirst(r)

\* C6, amended: in every state every log is in push order, newest first, and
\* holds at most 100 entries plus one for each push since the last trim of
\* the log that succeeded.
C6_CappedAfterTrim ==
  \A r \in Rooms : Len(store[r]) <= TRIM_STOP + 1 + untrimmed[r] /\ NewestFirst(r)

\* Two appends have pushed and neither has trimmed: the log is two over.
C6_Witness ==
  /\ Len(store["lobby"]) = TRIM_STOP + 3
  /\ \E t \in Suspended, u \in Suspended : t # u /\ t.pc = "ltrim" /\ u.pc = "ltrim"

\* C7: a query returns at most limit entries, the ones pushed last, in the
\* order they were pushed.
C7_AtMostLimit ==
  resp.room # "" =>
    /\ Len(resp.messages) <= resp.limit
    /\ resp.messages =
         Parsed(Suffix(SubSeq(appended[resp.room], 1, resp.n), Len(resp.messages)))

\* C8: the history read of a join yields the empty list when the log is
\* empty or the read fails; a log never written or past its expiry time is
\* empty; and a join whose read failed emits room_history with no messages
\* to the joiner, user_joined to the other members and join_success to the
\* joiner, as long as the joiner is connected.
C8_EmptyHistoryOnFailure ==
  [][/\ \A r \in Rooms :
          /\ appended'[r] = <<>> => store'[r] = <<>>
          /\ expireAt'[r] # NoTTL /\ expireAt'[r] <= clock' => store'[r] = <<>>
     /\ \A t \in Suspended, ok \in BOOLEAN :
          JoinLRange(t, ok) /\ (~ok \/ store[t.room] = <<>>)
            => \E u \in BagToSet(tasks') :
                 /\ u.kind = "join" /\ u.sid = t.sid /\ u.room = t.room
                 /\ u.pc = "room_history" /\ u.hist = <<>>
     /\ \A t \in Suspended :
          t.kind = "join" /\ ~t.ok /\ conn[t.sid] = "up" /\ JoinEmit(t) =>
            LET others == rooms[t.room] \ {t.sid}
                mine   == outbox'[t.sid]
                last   == mine[Len(mine)]
                goesOn(pc) == \E u \in BagToSet(tasks') :
                                u.kind = "join" /\ u.sid = t.sid /\ u.pc = pc /\ ~u.ok
            IN  CASE t.pc = "room_history" ->
                       /\ Len(mine) = Len(outbox[t.sid]) + 1
                       /\ last.ev = "room_history" /\ last.payload.messages = <<>>
                       /\ goesOn("user_joined")
                  [] t.pc = "user_joined" ->
                       IF others # {}
                       THEN /\ \A c \in others :
                                 /\ Len(outbox'[c]) = Len(outbox[c]) + 1
                                 /\ outbox'[c][Len(outbox'[c])].ev = "user_joined"
                            /\ goesOn("join_success")
                       ELSE /\ Len(mine) = Len(outbox[t.sid]) + 1
                            /\ last.ev = "join_success" /\ last.payload.room = t.room
                  [] t.pc = "join_success" ->
                       /\ Len(mine) = Len(outbox[t.sid]) + 1
                       /\ last.ev = "join_success" /\ last.payload.room = t.room]_vars

\* A join whose read failed has sent an empty room_history to the joiner and
\* user_joined to the member that was there, and is about to confirm.
C8_Witness ==
  \E t \in Suspended, c \in Conns :
    /\ t.kind = "join" /\ ~t.ok /\ t.pc = "join_success" /\ conn[t.sid] = "up"
    /\ c # t.sid /\ c \in rooms[t.room]
    /\ Len(outbox[t.sid]) > 0
    /\ outbox[t.sid][Len(outbox[t.sid])].ev = "room_history"
    /\ outbox[t.sid][Len(outbox[t.sid])].payload.messages = <<>>
    /\ \E i \in 1..Len(outbox[c]) : outbox[c][i].ev = "user_joined"

\* C11: a leave of room R by X takes X out of R's member set and out of no
\* other, and appends user_left with username "A user" exactly once to the
\* outbox of every connection that is a member of R after the removal and
\* to no other outbox; X does not get the user_left of its own leave.
C11_LeaveNotifiesRemaining ==
  [][\A sid \in Conns, data \in LeaveInputs :
       handle_leave(sid, data) =>
         /\ rooms'[data.room] = rooms[data.room] \ {sid}
         /\ \A r \in Rooms \ {data.room} : rooms'[r] = rooms[r]
         /\ outbox'[sid] = outbox[sid]
         /\ \A c \in Conns :
              IF c \in rooms'[data.room]
              THEN /\ Len(outbox'[c]) = Len(outbox[c]) + 1
                   /\ SubSeq(outbox'[c], 1, Len(outbox[c])) = outbox[c]
                   /\ outbox'[c][Len(outbox'[c])].ev = "user_left"
                   /\ outbox'[c][Len(outbox'[c])].payload = [username |-> "A user"]
              ELSE outbox'[c] = outbox[c]]_vars

\* A connection that had joined a room has left it while another stayed:
\* the one that stayed holds user_left as its last event, the one that left
\* holds its join_success and no user_left.
C11_Witness ==
  \E x \in Conns, c \in Conns, r \in Rooms :
    /\ x # c /\ rooms[r] = {c} /\ conn[x] = "up"
    /\ \E i \in 1..Len(outbox[x]) :
         outbox[x][i].ev = "join_success" /\ outbox[x][i].room = r
    /\ \A i \in 1..Len(outbox[x]) : outbox[x][i].ev # "user_left"
    /\ Len(outbox[c]) > 0
    /\ outbox[c][Len(outbox[c])].ev = "user_left"
    /\ outbox[c][Len(outbox[c])].room = r

\* What a step has appended to the outbox of c.
Delivered(c) == SubSeq(outbox'[c], Len(outbox[c]) + 1, Len(outbox'[c]))

\* C12: a join of room R by X with a username, or with none, resumes with
\* that username, or with "Anonymous"; every event its handler delivers to X
\* is its room_history, holding at most 50 records, all of room R, or its
\* join_success for R, every event it delivers to another connection is
\* user_joined with that username, and only members of R get one.  The
\* handler delivers room_history to X, then user_joined to every member of
\* R other than X, then join_success to X, and nothing else.
C12_JoinDeliveries ==
  [][/\ \A sid \in Conns, data \in JoinInputs :
          handle_join(sid, data) =>
            /\ outbox' = outbox
            /\ \E u \in BagToSet(tasks') :
                 /\ u.kind = "join" /\ u.sid = sid /\ u.room = data.room
                 /\ u.pc = "lrange"
                 /\ u.username = IF data.username = Missing THEN "Anonymous"
                                 ELSE data.username
     /\ \A t \in Suspended :
          t.kind = "join" /\ conn[t.sid] = "up" /\ JoinEmit(t) =>
            LET others == rooms[t.room] \ {t.sid}
                history == <<Event("room_history", [messages |-> t.hist], t.room, 0)>>
                joined_ == <<Event("user_joined", [username |-> t.username], t.room, 0)>>
                success == <<Event("join_success", [room |-> t.room], t.room, 0)>>
                sends(mine, theirs, pc) ==
                  /\ Delivered(t.sid) = mine
                  /\ \A c \in others : Delivered(c) = theirs
                  /\ \A c \in Conns \ (others \cup {t.sid}) : Delivered(c) = <<>>
                  /\ IF pc = "done" THEN \A u \in BagToSet(tasks') : u.sid # t.sid
                     ELSE \E u \in BagToSet(tasks') : u = [t EXCEPT !.pc = pc]
            IN  /\ Len(t.hist) <= DEFAULT_LIMIT
                /\ \A i \in 1..Len(t.hist) : t.hist[i].room = t.room
                /\ CASE t.pc = "room_history" -> sends(history, <<>>, "user_joined")
                     [] t.pc = "user_joined" ->
                          IF others # {} THEN sends(<<>>, joined_, "join_success")
                          ELSE sends(success, <<>>, "done")
                     [] t.pc = "join_success" -> sends(success, <<>>, "done")]_vars

\* A join of the lobby that gave no username has run to its end: the joiner
\* holds a room_history of 50 records of the lobby and then join_success,
\* and the member that was there holds user_joined from "Anonymous".
C12_Witness ==
  \E x \in Conns, c \in Conns :
    /\ x # c /\ rooms["lobby"] = {x, c} /\ tasks = EmptyBag
    /\ Len(outbox[x]) = 2
    /\ outbox[x][1].ev = "room_history"
    /\ Len(outbox[x][1].payload.messages) = DEFAULT_LIMIT
    /\ \A i \in 1..DEFAULT_LIMIT : outbox[x][1].payload.messages[i].room = "lobby"
    /\ outbox[x][2] = Event("join_success", [room |-> "lobby"], "lobby", 0)
    /\ outbox[c][Len(outbox[c])] =
         Event("user_joined", [username |-> "Anonymous"], "lobby", 0)

\* C13: every new_message in an outbox carries the timestamp of the record
\* that was pushed to the log for the same message event.
C13_OneTimestamp ==
  \A c \in Conns : \A i \in 1..Len(outbox[c]) :
    outbox[c][i].ev = "new_message" =>
      \A r \in Rooms : \A j \in 1..Len(appended[r]) :
        JsonLoads(appended[r][j]).id = outbox[c][i].id =>
          JsonLoads(appended[r][j]).timestamp = outbox[c][i].payload.timestamp

\* An append to the room is between its push and the end of its store
\* commands.
Appending(r) ==
  \E t \in Suspended : t.kind = "message" /\ t.room = r /\ t.pc \in {"ltrim", "expire"}

\* C14: when the clock moves on by 24 hours in one step, so that no append
\* falls in between, every log that no append is still working on is empty
\* afterwards, whichever store commands of the earlier appends failed.
C14_GoneAfterADay ==
  [][clock' >= clock + TTL_SECONDS =>
       \A r \in Rooms : ~Appending(r) => store'[r] = <<>>]_vars

\* C15: in every state, entering a room twice gives the member sets that
\* entering it once gives, and so for leaving; a join by a connection that
\* is a member of the room changes no member set, and a leave by one that
\* is not a member, of a room with or without members, changes none and
\* runs to its emit like any other.
C15_MembershipIdempotent ==
  [][\A sid \in Conns, r \in Rooms :
       /\ EnterRoom(EnterRoom(rooms, sid, r), sid, r) = EnterRoom(rooms, sid, r)
       /\ LeaveRoom(LeaveRoom(rooms, sid, r), sid, r) = LeaveRoom(rooms, sid, r)
       /\ sid \notin rooms[r] => LeaveRoom(rooms, sid, r) = rooms
       /\ \A data \in JoinInputs :
            data.room = r /\ sid \in rooms[r] /\ handle_join(sid, data)
              => rooms' = rooms
       /\ \A data \in LeaveInputs :
            data.room = r /\ sid \notin rooms[r] /\ handle_leave(sid, data)
              => /\ rooms' = rooms
                 /\ \A c \in Conns :
                      Len(outbox'[c]) = Len(outbox[c]) + IF c \in rooms[r] THEN 1 ELSE 0]_vars

\* The only connection there is has sent four events: two joins of one room,
\* which it completed, and two leaves, one of them of a room it was not in.
\* No room has a member.
C15_Witness ==
  \E x \in Conns, r \in Rooms :
    /\ conn[x] = "up" /\ \A c \in Conns \ {x} : conn[c] = "new"
    /\ nEvents = 4 /\ tasks = EmptyBag
    /\ \A q \in Rooms : rooms[q] = {}
    /\ Cardinality({i \in 1..Len(outbox[x]) : outbox[x][i].ev = "join_success"}) = 2
    /\ \A i \in 1..Len(outbox[x]) : outbox[x][i].room = r

\* C16: a message handler goes from its push to its trim, from its trim to
\* its expire and from its expire to its broadcast, or from any of the three
\* straight to its broadcast when the command fails, and ends only with the
\* broadcast.  A record enters a log only by the push of the handler that
\* made it, a log is trimmed only by a handler at its trim, an expiry is set
\* only by a handler at its expire, and a new_message reaches an outbox only
\* from the handler of its message event, at its broadcast.
C16_PushTrimExpireBroadcast ==
  [][/\ \A t \in Suspended :
          t.kind = "message" =>
            /\ \A u \in BagToSet(tasks') :
                 u.id = t.id =>
                   \/ u.pc = t.pc
                   \/ <<t.pc, u.pc>> \in {<<"lpush", "ltrim">>, <<"ltrim", "expire">>,
                                         <<"expire", "emit">>}
                   \/ u.pc = "emit" /\ ~u.ok
            /\ (\A u \in BagToSet(tasks') : u.id # t.id) => t.pc = "emit"
     /\ \A r \in Rooms :
          /\ appended'[r] # appended[r] =>
               \E t \in Suspended :
                 /\ t.kind = "message" /\ t.room = r /\ t.pc = "lpush"
                 /\ appended'[r] = Append(appended[r], JsonDumps(MessageData(t)))
          /\ clock' = clock /\ untrimmed'[r] < untrimmed[r] =>
               \E t \in Suspended : t.kind = "message" /\ t.room = r /\ t.pc = "ltrim"
          /\ clock' = clock /\ expireAt'[r] # expireAt[r] =>
               \E t \in Suspended : t.kind = "message" /\ t.room = r /\ t.pc = "expire"
     /\ \A c \in Conns : \A i \in 1..Len(Delivered(c)) :
          Delivered(c)[i].ev = "new_message" =>
            \E t \in Suspended :
              /\ t.kind = "message" /\ t.id = Delivered(c)[i].id /\ t.pc = "emit"
              /\ \A u \in BagToSet(tasks') : u.id # t.id]_vars

\* A message event has run to its end with every command succeeding: its
\* record is in the log, the log has its expiry, and a member holds its
\* new_message.
C16_Witness ==
  \E c \in Conns : \E i \in 1..Len(outbox[c]) :
    /\ outbox[c][i].ev = "new_message"
    /\ \A t \in Suspended : t.id # outbox[c][i].id
    /\ store["lobby"] # <<>>
    /\ JsonLoads(Head(store["lobby"])).id = outbox[c][i].id
    /\ untrimmed["lobby"] = 0
    /\ expireAt["lobby"] = clock + TTL_SECONDS

\* The well-formed records among the k newest entries of a log, oldest
\* first.
WellFormedNewest(log, k) ==
  LET n == Min(k, Len(log))
      oldestFirst == [i \in 1..n |-> log[n + 1 - i]]
  IN  Parsed(SelectSeq(oldestFirst, IsJson))

\* C17: a query of a room whose log holds a malformed entry answers, with
\* exactly the well-formed records among the limit newest entries of the
\* log, oldest first.
C17_SkipsMalformed ==
  resp.room # "" /\ (\E i \in 1..Len(store[resp.room]) : ~IsJson(store[resp.room][i]))
    => resp.messages = WellFormedNewest(store[resp.room], resp.limit)

\* Connection x holds message event k of room r: as a new_message, or
\* inside a room_history.
InHistory(e, k) ==
  \E j \in 1..Len(e.payload.messages) : e.payload.messages[j].id = k
AsNewMessage(x, r, k) ==
  \E i \in 1..Len(outbox[x]) : IsNewMessage(outbox[x][i], r) /\ outbox[x][i].id = k
AsHistory(x, r, k) ==
  \E i \in 1..Len(outbox[x]) :
    /\ outbox[x][i].ev = "room_history" /\ outbox[x][i].room = r
    /\ InHistory(outbox[x][i], k)
Observed(x, r, k) == AsNewMessage(x, r, k) \/ AsHistory(x, r, k)

\* Every join of r by x has delivered its room_history, and x is a member.
Settled(x, r) ==
  /\ x \in rooms[r]
  /\ \A t \in Suspended :
       t.kind = "join" /\ t.sid = x /\ t.room = r => t.pc \notin {"lrange", "room_history"}

\* The message events of room r whose handler has ended, whose write
\* succeeded and whose sender is not x.
FromOthers(x, r) ==
  {k \in written :
     /\ \A t \in Suspended : t.id # k
     /\ \E j \in 1..Len(appended[r]) :
          JsonLoads(appended[r][j]).id = k /\ JsonLoads(appended[r][j]).sid # x}

Stored(r) == {JsonLoads(store[r][j]).id : j \in 1..Len(store[r])}

C19_NoMessageTwice ==
  \A x \in Conns, r \in Rooms, k \in 1..nMsgs :
    ~(AsHistory(x, r, k) /\ AsNewMessage(x, r, k))

\* C20: a message event with a room and a text from a connection that is
\* not a member of the room is taken up like any other, its push puts its
\* record at the head of the room's log, and its broadcast appends its
\* new_message to the outbox of every member of the room and of no other
\* connection; a leave of a room by a connection that is not a member
\* appends user_left to the outbox of every member and of no other.
C20_NoMembershipNeeded ==
  [][/\ \A sid \in Conns, data \in MessageInputs :
          /\ ~InvalidMessage(data) /\ sid \notin rooms[data.room]
          /\ handle_message(sid, data)
          => \E u \in BagToSet(tasks') :
               /\ u.kind = "message" /\ u.sid = sid /\ u.room = data.room
               /\ u.message = data.message /\ u.pc = "lpush" /\ u.id = nMsgs'
     /\ \A t \in Suspended :
          t.kind = "message" /\ t.sid \notin rooms[t.room] /\ t \notin BagToSet(tasks') =>
            IF t.pc = "lpush"
            THEN /\ Len(appended'[t.room]) = Len(appended[t.room]) + 1
                 /\ store'[t.room] # <<>>
                 /\ JsonLoads(Head(store'[t.room])).id = t.id
                 /\ JsonLoads(Head(store'[t.room])).message = t.message
            ELSE t.pc = "emit" =>
                   \A c \in Conns :
                     IF c \in rooms[t.room]
                     THEN /\ Len(Delivered(c)) = 1
                          /\ Delivered(c)[1].ev = "new_message"
                          /\ Delivered(c)[1].id = t.id
                          /\ Delivered(c)[1].payload.message = t.message
                     ELSE Delivered(c) = <<>>
     /\ \A sid \in Conns, data \in LeaveData :
          /\ ~InvalidLeave(data) /\ sid \notin rooms[data.room]
          /\ handle_leave(sid, data)
          => \A c \in Conns :
               IF c \in rooms[data.room]
               THEN Delivered(c) =
                      <<Event("user_left", [username |-> "A user"], data.room, 0)>>
               ELSE Delivered(c) = <<>>]_vars

\* A connection that has joined no room has sent a message to a room with
\* a member: the record is in the room's log and the member holds the
\* new_message.
C20_Witness ==
  \E x \in Conns, c \in Conns, r \in Rooms :
    /\ x # c /\ conn[x] = "up" /\ outbox[x] = <<>> /\ tasks = EmptyBag
    /\ \A q \in Rooms : x \notin rooms[q]
    /\ c \in rooms[r] /\ store[r] # <<>>
    /\ JsonLoads(Head(store[r])).sid = x
    /\ AsNewMessage(c, r, JsonLoads(Head(store[r])).id)

====
